---- MODULE Spec2Model ----
(***************************************************************************)
(* Model of scripts/update.py: one invocation of the script parses its     *)
(* arguments, loads (and possibly extends) the registry                    *)
(* assets/repeaters.json, and writes index.md, repeaters.md, map.md,       *)
(* demo_map.html, assets/rr_frequencies.csv, assets/d878.csv and           *)
(* assets/d878.zip, in that order.  An uncaught exception ends the         *)
(* invocation at the statement that raised it.                             *)
(*                                                                         *)
(* Python strings are sequences of one-character strings, so that slicing, *)
(* prefixes, regular expressions, parsing and formatting are computed.     *)
(* A missing value of a string column (pandas NaN / None) is NaN.          *)
(* Numbers parsed from decimal strings are integers in units of 10^-6.     *)
(* Coordinates are pairs of integers in units of 0.01 degree; a record     *)
(* without coordinates carries the empty tuple.                            *)
(***************************************************************************)
EXTENDS Integers, Sequences, FiniteSets, TLC

VARIABLES
    registry,      \* assets/repeaters.json: the sequence of stored records
    parseable,     \* whether pd.read_json can parse assets/repeaters.json
    pc,            \* the statement of __main__ that is next (or that raised)
    exc,           \* TRUE once an exception has propagated out of statement pc
    args,          \* the namespace returned by parse_args
    repeaterbook,  \* what www.repeaterbook.com answers to this invocation
    df,            \* the DataFrame held by __main__
    written,       \* the output files written by the current invocation
    stdout,        \* the lines printed by the current invocation
    index_md,      \* index.md: the substituted n_repeaters
    repeaters_md,  \* repeaters.md: the rows of the markdown table
    map_md,        \* map.md and demo_map.html: the sequence of pins
    chirp_csv,     \* assets/rr_frequencies.csv: the rows
    d878_csv,      \* assets/d878.csv: the rows
    d878_zip       \* assets/d878.zip: the d878.csv packed in it

vars == <<registry, parseable, pc, exc, args, repeaterbook, df, written,
          stdout, index_md, repeaters_md, map_md, chirp_csv, d878_csv, d878_zip>>

----------------------------------------------------------------------------
(* Bounds of the exploration. *)

\* Largest number of records the registry holds (appends stop there).
MaxRecs == 2

----------------------------------------------------------------------------
(* Python string primitives. *)

NaN == <<"NaN">>

IsNaN(s) == s = NaN

Digits == {"0", "1", "2", "3", "4", "5", "6", "7", "8", "9"}

DigitVal(c) ==
    CASE c = "0" -> 0 [] c = "1" -> 1 [] c = "2" -> 2 [] c = "3" -> 3
      [] c = "4" -> 4 [] c = "5" -> 5 [] c = "6" -> 6 [] c = "7" -> 7
      [] c = "8" -> 8 [] c = "9" -> 9

DigitChar(n) ==
    CASE n = 0 -> "0" [] n = 1 -> "1" [] n = 2 -> "2" [] n = 3 -> "3"
      [] n = 4 -> "4" [] n = 5 -> "5" [] n = 6 -> "6" [] n = 7 -> "7"
      [] n = 8 -> "8" [] n = 9 -> "9"

Min(a, b) == IF a < b THEN a ELSE b

\* s[i:j] for 0 <= i <= j (Python clamps both ends to len(s)).
Slice(s, i, j) == SubSeq(s, Min(i, Len(s)) + 1, Min(j, Len(s)))

\* s[i:]
SliceFrom(s, i) == SubSeq(s, Min(i, Len(s)) + 1, Len(s))

\* s.startswith(p)
StartsWith(s, p) == Len(s) >= Len(p) /\ SubSeq(s, 1, Len(p)) = p

\* Whether p occurs in s at the 1-based position i.
MatchAt(s, i, p) == i + Len(p) - 1 <= Len(s) /\ SubSeq(s, i, i + Len(p) - 1) = p

\* Length of the longest run of characters of set cs that starts at position i.
RECURSIVE RunLen(_, _, _)
RunLen(s, i, cs) ==
    IF i <= Len(s) /\ s[i] \in cs THEN 1 + RunLen(s, i + 1, cs) ELSE 0

\* Length of the longest run of non-space characters that starts at position i.
RECURSIVE NonSpaceLen(_, _)
NonSpaceLen(s, i) ==
    IF i <= Len(s) /\ s[i] # " " THEN 1 + NonSpaceLen(s, i + 1) ELSE 0

RECURSIVE Pow10(_)
Pow10(n) == IF n = 0 THEN 1 ELSE 10 * Pow10(n - 1)

\* Number of decimal digits of the numeric model: the digits of ".06f".
FracDigits == 6

Unit == Pow10(FracDigits)

\* The value of a sequence of digits.
RECURSIVE DigitsVal(_)
DigitsVal(ds) ==
    IF ds = <<>> THEN 0
    ELSE 10 * DigitsVal(SubSeq(ds, 1, Len(ds) - 1)) + DigitVal(ds[Len(ds)])

\* The decimal digits of a natural number.
RECURSIVE NatStr(_)
NatStr(n) ==
    IF n < 10 THEN <<DigitChar(n)>> ELSE NatStr(n \div 10) \o <<DigitChar(n % 10)>>

\* n written with exactly w digits (n < 10^w).
RECURSIVE PadStr(_, _)
PadStr(n, w) ==
    IF w = 0 THEN <<>> ELSE PadStr(n \div 10, w - 1) \o <<DigitChar(n % 10)>>

----------------------------------------------------------------------------
(* float(x), pd.to_numeric and f"{x:.0Nf}". *)

Unsigned(s) == IF s # <<>> /\ s[1] \in {"+", "-"} THEN Tail(s) ELSE s

IntLen(s) == RunLen(Unsigned(s), 1, Digits)

HasDot(s) == IntLen(s) < Len(Unsigned(s)) /\ Unsigned(s)[IntLen(s) + 1] = "."

FracLen(s) == IF HasDot(s) THEN RunLen(Unsigned(s), IntLen(s) + 2, Digits) ELSE 0

\* Whether float(s) succeeds: [sign] digits [. digits] with at least one digit.
\* (Exponents, "inf", "nan", blanks and underscores are not among the inputs.)
IsFloat(s) ==
    /\ ~IsNaN(s)
    /\ IntLen(s) + FracLen(s) >= 1
    /\ Len(Unsigned(s)) = IntLen(s) + (IF HasDot(s) THEN 1 ELSE 0) + FracLen(s)

\* float(s) in units of 10^-6, for IsFloat(s) with at most FracDigits decimals.
Float(s) ==
    LET u == Unsigned(s)
        ip == DigitsVal(SubSeq(u, 1, IntLen(s)))
        fd == Min(FracLen(s), FracDigits)
        fp == DigitsVal(SubSeq(u, IntLen(s) + 2, IntLen(s) + 1 + fd))
        mag == ip * Unit + fp * Pow10(FracDigits - fd)
    IN  IF s # <<>> /\ s[1] = "-" THEN 0 - mag ELSE mag

\* f"{v:.0df}" for a value v in units of 10^-6 (round half to even).
FormatFixed(v, d) ==
    LET mag == IF v < 0 THEN 0 - v ELSE v
        step == Pow10(FracDigits - d)
        q == mag \div step
        r == mag % step
        up == 2 * r > step \/ (2 * r = step /\ q % 2 = 1)
        n == IF up THEN q + 1 ELSE q
    IN  (IF v < 0 THEN <<"-">> ELSE <<>>) \o NatStr(n \div Pow10(d))
            \o <<".">> \o PadStr(n % Pow10(d), d)

\* pd.to_numeric on one cell: a missing cell is NaN, a number is parsed, and
\* anything else makes the whole call raise ValueError.
NumRaises(s) == ~IsNaN(s) /\ ~IsFloat(s)

----------------------------------------------------------------------------
(* Records. *)

NoCoordinates == <<>>

Rec(call, mode, out, off, tone, coords) ==
    [Callsign |-> call, Mode |-> mode, Output |-> out, Offset |-> off,
     Tone |-> tone, Coordinates |-> coords]

\* A Python value is falsy when it is None, an empty string or zero.
Truthy(s) == ~IsNaN(s) /\ s # <<>>

TruthyNum(n) == n # <<>> /\ n[1] # 0

\* The answer of the site: status "ok" with the raw texts between the markers
\* of the page, "error" when the request or a split fails, "none" when the
\* site is not asked.
Page(status, call, freq, offset, tone, latlong) ==
    [status |-> status, call |-> call, freq |-> freq, offset |-> offset,
     tone |-> tone, latlong |-> latlong]

NoPage == Page("none", NaN, NaN, NaN, NaN, NoCoordinates)

\* Mutant of LookupRaises: a page whose numbers cannot be parsed is accepted.
LookupRaisesOnErrorOnly(id_code, page) == ~IsNaN(id_code) /\ page.status # "ok"

\* Whether repeater_from_repeaterbook raises.
LookupRaises(id_code, page) ==
    /\ ~IsNaN(id_code)
    /\ \/ page.status # "ok"
       \/ ~IsFloat(page.freq)
       \/ ~IsFloat(page.offset)

\* freq = f"{float(freq):.04f}", less one trailing zero.
BookFreq(raw) ==
    LET f == FormatFixed(Float(raw), 4)
    IN  IF f[Len(f)] = "0" THEN SubSeq(f, 1, Len(f) - 1) ELSE f

\* offset = f"{float(offset):.01f}", with "+" put before a value without "-".
BookOffset(raw) ==
    LET o == FormatFixed(Float(raw), 1)
    IN  IF o[1] # "-" THEN <<"+">> \o o ELSE o

\* The dict returned by repeater_from_repeaterbook (no Mode key; every key
\* absent when no id is given).
repeater_from_repeaterbook(id_code, page) ==
    IF IsNaN(id_code)
    THEN Rec(NaN, NaN, NaN, NaN, NaN, NoCoordinates)
    ELSE Rec(page.call, NaN, BookFreq(page.freq), BookOffset(page.offset),
             page.tone, page.latlong)

\* The dict returned by repeater_from_args: falsy values are dropped.
repeater_from_args(a) ==
    Rec(IF Truthy(a.call) THEN a.call ELSE NaN,
        IF Truthy(a.mode) THEN a.mode ELSE NaN,
        IF Truthy(a.freq) THEN a.freq ELSE NaN,
        IF Truthy(a.offset) THEN a.offset ELSE NaN,
        IF Truthy(a.tone) THEN a.tone ELSE NaN,
        IF TruthyNum(a.lat) /\ TruthyNum(a.lon)
        THEN <<a.lat[1], a.lon[1]>> ELSE NoCoordinates)

\* {**repeaterbook, **repeaterargs}: the keys of the arguments win.
MergeRecords(book, ra) ==
    Rec(IF IsNaN(ra.Callsign) THEN book.Callsign ELSE ra.Callsign,
        IF IsNaN(ra.Mode) THEN book.Mode ELSE ra.Mode,
        IF IsNaN(ra.Output) THEN book.Output ELSE ra.Output,
        IF IsNaN(ra.Offset) THEN book.Offset ELSE ra.Offset,
        IF IsNaN(ra.Tone) THEN book.Tone ELSE ra.Tone,
        IF ra.Coordinates = NoCoordinates THEN book.Coordinates ELSE ra.Coordinates)

----------------------------------------------------------------------------
(* String literals of the source. *)

FM == <<"F", "M">>
NBFM == <<"N", "B", "F", "M">>
NFM == <<"N", "F", "M">>
Fusion == <<"F", "u", "s", "i", "o", "n">>
DMR == <<"D", "M", "R">>
ToneDefault == <<"8", "8", ".", "5">>
DtcsDefault == <<"0", "2", "3">>
CommentSep == <<" ", "-", " ">>
NanText == <<"n", "a", "n">>

\* The example of the source: "CC2/TS1 BEARS1 TG/312488".
TalkGroupTone ==
    <<"C", "C", "2", "/", "T", "S", "1", " ", "B", "E", "A", "R", "S", "1",
      " ", "T", "G", "/", "3", "1", "2", "4", "8", "8">>

----------------------------------------------------------------------------
(* remove_df_footnotes: Mode with every match of \[.+\] replaced by "". *)

SetMin(S) == CHOOSE x \in S : \A y \in S : x <= y

SetMax(S) == CHOOSE x \in S : \A y \in S : x >= y

CloseBrackets(s) == {j \in 1..Len(s) : s[j] = "]"}

\* The positions where \[.+\] matches: a "[" with a "]" at least two further.
FootnoteStarts(s) ==
    {i \in 1..Len(s) : s[i] = "[" /\ \E j \in CloseBrackets(s) : j >= i + 2}

\* The leftmost match is greedy: it runs to the last "]" of the string, after
\* which no further match exists.
StripFootnote(s) ==
    IF IsNaN(s) \/ FootnoteStarts(s) = {} THEN s
    ELSE SubSeq(s, 1, SetMin(FootnoteStarts(s)) - 1)
             \o SubSeq(s, SetMax(CloseBrackets(s)) + 1, Len(s))

remove_df_footnotes(d) ==
    [i \in 1..Len(d) |-> [d[i] EXCEPT !.Mode = StripFootnote(d[i].Mode)]]

----------------------------------------------------------------------------
(* format_df_for_chirp *)

ChirpModes == {FM, NBFM, Fusion}

IsChirpMode(r) == r.Mode \in ChirpModes

\* Mutant of ChirpKept: Fusion is left out of the list.
ChirpKeptWithoutFusion(d) == SelectSeq(d, LAMBDA r : r.Mode \in {FM, NBFM})

\* df.loc[df["Mode"].isin(["FM", "NBFM", "Fusion"])]
ChirpKept(d) == SelectSeq(d, IsChirpMode)

\* NBFM -> NFM and Fusion -> FM for Chirp.
ChirpMode(m) == IF m = NBFM THEN NFM ELSE IF m = Fusion THEN FM ELSE m

\* df["Offset (MHz)"].str[0]
ChirpDuplex(off) == IF IsNaN(off) \/ off = <<>> THEN NaN ELSE <<off[1]>>

\* float(x) of the lambda raises ValueError on text that is no number.
ChirpOffsetRaises(off) == ~IsNaN(off) /\ ~IsFloat(SliceFrom(off, 1))

\* df["Offset (MHz)"].str[1:].apply(lambda x: f"{float(x):.06f}")
ChirpOffset(off) ==
    IF IsNaN(off) THEN NanText ELSE FormatFixed(Float(SliceFrom(off, 1)), FracDigits)

\* df["Callsign"] + " - " + df["Output (MHz)"]
ChirpComment(r) ==
    IF IsNaN(r.Callsign) \/ IsNaN(r.Output) THEN NaN
    ELSE r.Callsign \o CommentSep \o r.Output

\* dcs = df["rToneFreq"].str.startswith("D")
\* (The tone is present in every explored record.)
IsDcs(tone) == ~IsNaN(tone) /\ StartsWith(tone, <<"D">>)

\* Mutant of DtcsCode: the slice is str[1:] instead of str[1:4].
DtcsCodeUncut(tone) == IF IsDcs(tone) THEN SliceFrom(tone, 1) ELSE DtcsDefault

\* df.loc[dcs, "DtcsCode"] = df.loc[dcs, "rToneFreq"].str[1:4]
DtcsCode(tone) == IF IsDcs(tone) THEN Slice(tone, 1, 4) ELSE DtcsDefault

ChirpRow(r, n) ==
    [Location |-> n,
     Name |-> r.Callsign,
     Frequency |-> r.Output,
     Duplex |-> ChirpDuplex(r.Offset),
     Offset |-> ChirpOffset(r.Offset),
     Tone |-> IF IsDcs(r.Tone) THEN "DTCS" ELSE "Tone",
     rToneFreq |-> IF IsDcs(r.Tone) THEN ToneDefault ELSE r.Tone,
     cToneFreq |-> "88.5",
     DtcsCode |-> DtcsCode(r.Tone),
     DtcsPolarity |-> "NN",
     Mode |-> ChirpMode(r.Mode),
     TStep |-> "5.00",
     Skip |-> NaN,
     Comment |-> ChirpComment(r),
     URCALL |-> NaN, RPT1CALL |-> NaN, RPT2CALL |-> NaN, DVCODE |-> NaN]

format_df_for_chirp_raises(d) ==
    \E i \in 1..Len(ChirpKept(d)) : ChirpOffsetRaises(ChirpKept(d)[i].Offset)

format_df_for_chirp(d) ==
    [n \in 1..Len(ChirpKept(d)) |-> ChirpRow(ChirpKept(d)[n], n)]

\* print(f"Chirp : {len(df)} of {total_repeaters} compatible repeaters.")
ChirpReport(d) == [exporter |-> "Chirp", kept |-> Len(ChirpKept(d)), total |-> Len(d)]

----------------------------------------------------------------------------
(* format_df_for_d878 *)

D878Modes == {FM, NBFM, DMR, Fusion}

IsD878Mode(r) == r.Mode \in D878Modes

\* df.loc[df["Mode"].isin(["FM", "NBFM", "DMR", "Fusion"])]
D878Kept(d) == SelectSeq(d, IsD878Mode)

\* df[numeric_columns].apply(pd.to_numeric) raises on text that is no number.
format_df_for_d878_raises(d) ==
    \E i \in 1..Len(D878Kept(d)) :
        NumRaises(D878Kept(d)[i].Output) \/ NumRaises(D878Kept(d)[i].Offset)

\* The band edges 144.0, 148.0, 430.0 and 450.0 in units of 10^-6.
Lo2m == 144 * Unit

Hi2m == 148 * Unit

Lo70cm == 430 * Unit

Hi70cm == 450 * Unit

\* (df["Output (MHz)"] > 144.0) & (df["Output (MHz)"] < 148.0); a comparison
\* with NaN is False.
In2m(r) == ~IsNaN(r.Output) /\ Float(r.Output) > Lo2m /\ Float(r.Output) < Hi2m

\* Mutant of In70cm: the upper edge is included.
In70cmClosed(r) ==
    ~IsNaN(r.Output) /\ Float(r.Output) > Lo70cm /\ Float(r.Output) <= Hi70cm

\* (df["Output (MHz)"] > 430.0) & (df["Output (MHz)"] < 450.0)
In70cm(r) == ~IsNaN(r.Output) /\ Float(r.Output) > Lo70cm /\ Float(r.Output) < Hi70cm

\* pd.concat([df_2m, df_70cm])
D878Banded(d) == SelectSeq(D878Kept(d), In2m) \o SelectSeq(D878Kept(d), In70cm)

\* A numeric cell: <<v>> for the number v, <<>> for NaN.
NumNaN == <<>>

\* round(3) of a value in units of 10^-6 (round half to even).
Round3(v) ==
    LET mag == IF v < 0 THEN 0 - v ELSE v
        step == Pow10(FracDigits - 3)
        q == mag \div step
        r == mag % step
        n == IF 2 * r > step \/ (2 * r = step /\ q % 2 = 1) THEN q + 1 ELSE q
    IN  IF v < 0 THEN 0 - n * step ELSE n * step

\* df["Output (MHz)"] + df["Offset (MHz)"], rounded
D878Transmit(r) ==
    IF IsNaN(r.Offset) THEN NumNaN ELSE <<Round3(Float(r.Output) + Float(r.Offset))>>

\* is_widefm = df["Mode"].isin(["FM", "Fusion"])
IsWideFm(r) == r.Mode \in {FM, Fusion}

\* Mutant of D878Encode: the assignment of None to the DMR rows is missing.
D878EncodeUngated(r) ==
    IF IsDcs(r.Tone) THEN <<"D">> \o Slice(r.Tone, 1, 4) \o <<"N">> ELSE r.Tone

\* The three assignments to "CTCSS/DCS Encode", in their order.
D878Encode(r) ==
    IF r.Mode = DMR THEN NaN
    ELSE IF IsDcs(r.Tone) THEN <<"D">> \o Slice(r.Tone, 1, 4) \o <<"N">>
    ELSE r.Tone

\* Whether CC(\d+)\/TS([12]) (\S+) TG\/(\d+) matches s from position i on.
\* Each greedy run can only be the longest one: the character after \d+ must be
\* "/" (no digit) and the character after \S+ must be " " (no \S).
DmrColorLen(s, i) == RunLen(s, i + 2, Digits)

DmrSlotPos(s, i) == i + 2 + DmrColorLen(s, i) + 3

DmrContactLen(s, i) == NonSpaceLen(s, DmrSlotPos(s, i) + 2)

DmrIdPos(s, i) == DmrSlotPos(s, i) + 2 + DmrContactLen(s, i) + 4

DmrMatchAt(s, i) ==
    /\ MatchAt(s, i, <<"C", "C">>)
    /\ DmrColorLen(s, i) >= 1
    /\ MatchAt(s, i + 2 + DmrColorLen(s, i), <<"/", "T", "S">>)
    /\ DmrSlotPos(s, i) <= Len(s)
    /\ s[DmrSlotPos(s, i)] \in {"1", "2"}
    /\ MatchAt(s, DmrSlotPos(s, i) + 1, <<" ">>)
    /\ DmrContactLen(s, i) >= 1
    /\ MatchAt(s, DmrIdPos(s, i) - 4, <<" ", "T", "G", "/">>)
    /\ RunLen(s, DmrIdPos(s, i), Digits) >= 1

DmrMatches(s) == IF IsNaN(s) THEN {} ELSE {i \in 1..Len(s) : DmrMatchAt(s, i)}

\* str.extract: the groups of the first match, or NaN in every group.
DmrCodes(s) ==
    IF DmrMatches(s) = {}
    THEN [color |-> NaN, slot |-> NaN, contact |-> NaN, id |-> NaN]
    ELSE LET i == SetMin(DmrMatches(s))
         IN  [color |-> SubSeq(s, i + 2, i + 1 + DmrColorLen(s, i)),
              slot |-> <<s[DmrSlotPos(s, i)]>>,
              contact |-> SubSeq(s, DmrSlotPos(s, i) + 2,
                                 DmrSlotPos(s, i) + 1 + DmrContactLen(s, i)),
              id |-> SubSeq(s, DmrIdPos(s, i),
                            DmrIdPos(s, i) + RunLen(s, DmrIdPos(s, i), Digits) - 1)]

\* df_878["Color Code"] = 1, then the DMR rows take dmr_codes["color"].
D878ColorCode(r) == IF r.Mode = DMR THEN DmrCodes(r.Tone).color ELSE <<"1">>

D878Row(r, n) ==
    [No |-> n,
     ChannelName |-> r.Callsign,
     ReceiveFrequency |-> <<Round3(Float(r.Output))>>,
     TransmitFrequency |-> D878Transmit(r),
     ChannelType |-> IF r.Mode = DMR THEN "D-Digital" ELSE "A-Analog",
     DMRMode |-> IF r.Mode = DMR THEN "1" ELSE "0",
     BandWidth |-> IF IsWideFm(r) THEN "25K" ELSE "12.5K",
     Encode |-> D878Encode(r),
     Contact |-> IF r.Mode = DMR THEN DmrCodes(r.Tone).contact ELSE NaN,
     ContactId |-> IF r.Mode = DMR THEN DmrCodes(r.Tone).id ELSE NaN,
     ColorCode |-> D878ColorCode(r),
     Slot |-> IF r.Mode = DMR THEN DmrCodes(r.Tone).slot ELSE NaN,
     ScanList |-> "Roundabout"]

format_df_for_d878(d) ==
    [n \in 1..Len(D878Banded(d)) |-> D878Row(D878Banded(d)[n], n)]

\* print(f"AnyTone D878 : {len(df)} of {total_repeaters} compatible repeaters.")
D878Report(d) ==
    [exporter |-> "AnyTone D878", kept |-> Len(D878Banded(d)), total |-> Len(d)]

----------------------------------------------------------------------------
(* write_map_md: pdist, linkage(method="complete"), fcluster(criterion=     *)
(* "distance") and the pins.                                               *)

\* threshold = 0.03, in units of 0.01 degree.
Threshold == 3

\* np.array of the coordinates is ragged when a record has none, pdist needs
\* a 2-dimensional array, and linkage raises on fewer than two observations
\* ("The number of observations cannot be determined on an empty distance
\* matrix").
write_map_md_raises(d) ==
    \/ Len(d) < 2
    \/ \E i \in 1..Len(d) : d[i].Coordinates = NoCoordinates

\* The squared Euclidean distance of records i and j, in units of 10^-4.
Dist2(d, i, j) ==
    LET dlat == d[i].Coordinates[1] - d[j].Coordinates[1]
        dlon == d[i].Coordinates[2] - d[j].Coordinates[2]
    IN  dlat * dlat + dlon * dlon

\* Complete linkage: the distance of two clusters is that of their farthest
\* members.
ClusterDist2(d, A, B) == SetMax({Dist2(d, i, j) : i \in A, j \in B})

ClusterPairs(P) == {pr \in P \X P : pr[1] # pr[2]}

NearestDist2(d, P) == SetMin({ClusterDist2(d, pr[1], pr[2]) : pr \in ClusterPairs(P)})

\* The flat clusterings fcluster can return: the nearest two clusters are
\* merged while they are no farther apart than the threshold.  Where several
\* pairs are equally near, the pair linkage takes first depends on its
\* internal order, so every choice is an outcome.  (No two explored
\* coordinates lie at exactly the threshold distance, where the rounding of
\* the floating-point distance would decide.)
RECURSIVE Clusterings(_, _)
Clusterings(d, P) ==
    IF Cardinality(P) < 2 \/ NearestDist2(d, P) > Threshold * Threshold
    THEN {P}
    ELSE UNION {Clusterings(d, (P \ {pr[1], pr[2]}) \cup {pr[1] \cup pr[2]}) :
                    pr \in {q \in ClusterPairs(P) :
                                ClusterDist2(d, q[1], q[2]) = NearestDist2(d, P)}}

Singletons(d) == {{i} : i \in 1..Len(d)}

\* The members of a cluster in row order.
RECURSIVE Members(_)
Members(A) ==
    IF A = {} THEN <<>> ELSE <<SetMin(A)>> \o Members(A \ {SetMin(A)})

\* The clusters in the order of their first rows (the insertion order of the
\* defaultdict).
RECURSIVE ClusterOrder(_)
ClusterOrder(P) ==
    IF P = {} THEN <<>>
    ELSE LET first == CHOOSE A \in P : \A B \in P : SetMin(A) <= SetMin(B)
         IN  <<first>> \o ClusterOrder(P \ {first})

\* msg += f"{repeater['Callsign']} {repeater['Output (MHz)']}<br>"
RECURSIVE PinMsg(_, _)
PinMsg(d, ms) ==
    IF ms = <<>> THEN <<>>
    ELSE d[Head(ms)].Callsign \o <<" ">> \o d[Head(ms)].Output
             \o <<"<", "b", "r", ">">> \o PinMsg(d, Tail(ms))

RECURSIVE SumCoord(_, _, _)
SumCoord(d, ms, k) ==
    IF ms = <<>> THEN 0 ELSE d[Head(ms)].Coordinates[k] + SumCoord(d, Tail(ms), k)

\* np.mean(..., axis=0)[k]: the mean of the members' k-th coordinates, kept
\* exact as the pair <<sum, count>> (its rendering with ".10f" is left out).
Mean(d, ms, k) == <<SumCoord(d, ms, k), Len(ms)>>

Pin(d, A) ==
    [msg |-> PinMsg(d, Members(A)),
     lat |-> Mean(d, Members(A), 1),
     lon |-> Mean(d, Members(A), 2)]

\* One pin per cluster whose msg is not empty.
Pins(d, P) ==
    SelectSeq([k \in 1..Cardinality(P) |-> Pin(d, ClusterOrder(P)[k])],
              LAMBDA pin : Len(pin.msg) > 0)

----------------------------------------------------------------------------
(* generate_repeater_df *)

\* pd.concat([df, repeater], ignore_index=True)
ConcatRecord(d, r) == Append(d, r)

\* Mutant of SavedRegistry: the new record alone is saved.
SavedNewRecordOnly(d) == <<d[Len(d)]>>

\* df.to_json("assets/repeaters.json", orient="records", indent=4)
SavedRegistry(d) == d

----------------------------------------------------------------------------
(* The inputs explored. *)

\* The sequences over S of one to n elements.
SeqsUpTo(S, n) == UNION {[1..k -> S] : k \in 1..n}

Coord(lat, lon) == <<lat, lon>>

\* Records found in the registry when the script starts.
StoredRecords ==
    {Rec(<<"W", "7", "A", "A", "A">>, FM, <<"1", "4", "6", ".", "9", "4">>,
        <<"-", "0", ".", "6">>, <<"1", "0", "3", ".", "5">>, Coord(1, 1)),
     Rec(<<"W", "7", "B", "B", "B">>, <<"F", "M", "[", "1", "]">>,
         <<"4", "4", "2", ".", "5">>, <<"+", "5", ".", "0">>,
         <<"D", "0", "2", "3", "N">>, Coord(2, 1)),
     Rec(<<"W", "7", "C", "C", "C">>, DMR, <<"1", "4", "7", ".", "2">>,
         <<"+", "0", ".", "6">>,
         TalkGroupTone,
         Coord(7, 1))}

Args(regen, id, call, freq, offset, tone, mode, lat, lon) ==
    [regen |-> regen, id |-> id, call |-> call, freq |-> freq,
     offset |-> offset, tone |-> tone, mode |-> mode, lat |-> lat, lon |-> lon]

\* --regen: every other argument at its default.
RegenArgs == Args(TRUE, NaN, NaN, NaN, NaN, NaN, FM, <<>>, <<>>)

\* The command lines explored: a complete record; an offset without a sign;
\* an output frequency that is no number; no --lat/--lon; --lat 0; a lookup
\* alone; a lookup with --offset and --mode given.
ArgChoices ==
    {RegenArgs,
     Args(FALSE, NaN, <<"K", "7", "X", "X", "X">>,
         <<"1", "4", "6", ".", "6", "2">>, <<"-", "0", ".", "6">>,
         <<"8", "8", ".", "5">>, FM, <<3>>, <<1>>),
     Args(FALSE, NaN, <<"K", "7", "Y", "Y", "Y">>,
         <<"1", "4", "5", ".", "3", "3">>, <<"0", ".", "6">>,
         <<"1", "0", "0", ".", "0">>, FM, <<3>>, <<1>>),
     Args(FALSE, NaN, <<"K", "7", "Z", "Z", "Z">>, <<"1", "4", "x", ".", "5">>,
         <<"-", "0", ".", "6">>, <<"D", "0", "2", "3", "N">>, DMR, <<3>>,
         <<1>>),
     Args(FALSE, NaN, <<"K", "7", "N", "L", "L">>,
         <<"1", "4", "6", ".", "6", "2">>, <<"-", "0", ".", "6">>,
         <<"8", "8", ".", "5">>, FM, <<>>, <<>>),
     Args(FALSE, NaN, <<"K", "7", "Z", "E", "R">>,
         <<"1", "4", "6", ".", "6", "2">>, <<"-", "0", ".", "6">>,
         <<"8", "8", ".", "5">>, FM, <<0>>, <<1>>),
     Args(FALSE, <<"9">>, NaN, NaN, NaN, NaN, FM, <<>>, <<>>),
     Args(FALSE, <<"9">>, NaN, NaN, <<"5">>, NaN, NBFM, <<>>, <<>>)}

\* What the lookup can meet: a page, a page whose downlink is no number, and
\* a failed request.
Pages ==
    {Page("ok", <<"N", "7", "B", "K", "A">>,
        <<"4", "4", "4", ".", "6", "5", "0", "0", "0">>,
        <<"5", ".", "0", "0", "0">>, <<"D", "0", "2", "3", "N">>,
        Coord(2, 2)),
     Page("ok", <<"N", "7", "B", "K", "B">>, <<>>,
         <<"-", "0", ".", "6", "0", "0">>, <<"1", "0", "3", ".", "5">>,
         Coord(2, 2)),
     Page("error", NaN, NaN, NaN, NaN, NoCoordinates)}

\* Registries for the band filter: every mode with every output frequency
\* (the four band edges and a frequency inside each band).
DStar == <<"D", "-", "S", "T", "A", "R">>

NbfmNoted == <<"N", "B", "F", "M", "[", "2", "]">>

BandModes == {FM, Fusion, DMR, DStar}

BandFreqs == {<<"1", "4", "4", ".", "0">>, <<"1", "4", "6", ".", "9", "4">>,
    <<"1", "4", "8", ".", "0">>, <<"4", "3", "0", ".", "0">>,
    <<"4", "4", "2", ".", "5">>, <<"4", "5", "0", ".", "0">>}

BandRecords ==
    {Rec(<<"W", "7">> \o m, m, f, <<"+", "0", ".", "6">>,
        <<"1", "0", "3", ".", "5">>, Coord(1, 1)) :
         m \in BandModes, f \in BandFreqs}

\* Registries for the tone codec: every mode (NBFM with a footnote) with every
\* shape of tone: CTCSS, DCS, a short DCS text and DMR.
ToneModes == {FM, Fusion, DMR, DStar, NbfmNoted}

Tones == {<<"1", "0", "3", ".", "5">>, <<"D", "0", "2", "3", "N">>,
    <<"D", "0", "7">>,
    TalkGroupTone}

ToneRecords ==
    {Rec(<<"W", "7">> \o m, m, <<"1", "4", "6", ".", "9", "4">>,
        <<"-", "0", ".", "6">>, t, Coord(1, 1)) :
         m \in ToneModes, t \in Tones}

----------------------------------------------------------------------------
(* The script. *)

Idle == pc = "exit" \/ exc

Raise == exc' = TRUE /\ pc' = pc

\* A new invocation: args = parse_args(), and the answer the site will give
\* to it.  An invocation that would store a record is explored only while the
\* registry holds fewer than MaxRecs records.
ParseArgs ==
    /\ Idle
    /\ \E a \in ArgChoices :
          \E page \in (IF a.regen \/ IsNaN(a.id) THEN {NoPage} ELSE Pages) :
              /\ \/ a.regen
                 \/ LookupRaises(a.id, page)
                 \/ Len(registry) < MaxRecs
              /\ args' = a
              /\ repeaterbook' = page
    /\ pc' = "generate_repeater_df"
    /\ exc' = FALSE
    /\ written' = {}
    /\ stdout' = <<>>
    /\ df' = <<>>
    /\ UNCHANGED <<registry, parseable, index_md, repeaters_md, map_md,
                   chirp_csv, d878_csv, d878_zip>>

\* df = generate_repeater_df(args)
GenerateRepeaterDf ==
    /\ pc = "generate_repeater_df" /\ ~exc
    /\ IF args.regen
       THEN IF parseable
            THEN df' = registry /\ pc' = "write_index_md"
                 /\ UNCHANGED <<registry, exc>>
            ELSE Raise /\ UNCHANGED <<registry, df>>
       ELSE IF LookupRaises(args.id, repeaterbook) \/ ~parseable
            THEN Raise /\ UNCHANGED <<registry, df>>
            ELSE /\ df' = ConcatRecord(registry,
                              MergeRecords(
                                  repeater_from_repeaterbook(args.id, repeaterbook),
                                  repeater_from_args(args)))
                 /\ registry' = SavedRegistry(df')
                 /\ pc' = "write_index_md"
                 /\ UNCHANGED exc
    /\ UNCHANGED <<parseable, args, repeaterbook, written, stdout, index_md,
                   repeaters_md, map_md, chirp_csv, d878_csv, d878_zip>>

\* write_index_md(df): n_repeaters = len(df).  (The date and the number of
\* groups are not kept; the descriptive columns are present in every stored
\* record, so that neither this function nor the next raises.)
WriteIndexMd ==
    /\ pc = "write_index_md" /\ ~exc
    /\ index_md' = Len(df)
    /\ written' = written \cup {"index.md"}
    /\ pc' = "write_repeaters_md"
    /\ UNCHANGED <<registry, parseable, exc, args, repeaterbook, df, stdout,
                   repeaters_md, map_md, chirp_csv, d878_csv, d878_zip>>

\* write_repeaters_md(df): the table of the modelled columns of every row.
WriteRepeatersMd ==
    /\ pc = "write_repeaters_md" /\ ~exc
    /\ repeaters_md' = [i \in 1..Len(df) |->
                           <<df[i].Callsign, df[i].Mode, df[i].Output,
                             df[i].Offset, df[i].Tone>>]
    /\ written' = written \cup {"repeaters.md"}
    /\ pc' = "write_map_md"
    /\ UNCHANGED <<registry, parseable, exc, args, repeaterbook, df, stdout, index_md,
                   map_md, chirp_csv, d878_csv, d878_zip>>

\* write_map_md(df)
WriteMapMd ==
    /\ pc = "write_map_md" /\ ~exc
    /\ IF write_map_md_raises(df)
       THEN Raise /\ UNCHANGED <<map_md, written>>
       ELSE /\ \E P \in Clusterings(df, Singletons(df)) : map_md' = Pins(df, P)
            /\ written' = written \cup {"map.md", "demo_map.html"}
            /\ pc' = "remove_df_footnotes"
            /\ UNCHANGED exc
    /\ UNCHANGED <<registry, parseable, args, repeaterbook, df, stdout, index_md,
                   repeaters_md, chirp_csv, d878_csv, d878_zip>>

\* df = remove_df_footnotes(df)
RemoveDfFootnotes ==
    /\ pc = "remove_df_footnotes" /\ ~exc
    /\ df' = remove_df_footnotes(df)
    /\ pc' = "write_chirp_csv"
    /\ UNCHANGED <<registry, parseable, exc, args, repeaterbook, written,
                   stdout, index_md,
                   repeaters_md, map_md, chirp_csv, d878_csv, d878_zip>>

\* write_chirp_csv(df): the count is printed before the offsets are parsed.
WriteChirpCsv ==
    /\ pc = "write_chirp_csv" /\ ~exc
    /\ stdout' = Append(stdout, ChirpReport(df))
    /\ IF format_df_for_chirp_raises(df)
       THEN Raise /\ UNCHANGED <<chirp_csv, written>>
       ELSE /\ chirp_csv' = format_df_for_chirp(df)
            /\ written' = written \cup {"rr_frequencies.csv"}
            /\ pc' = "write_d878_zip"
            /\ UNCHANGED exc
    /\ UNCHANGED <<registry, parseable, args, repeaterbook, df, index_md, repeaters_md,
                   map_md, d878_csv, d878_zip>>

\* write_d878_zip(df): the count is printed after the columns are parsed.
WriteD878Zip ==
    /\ pc = "write_d878_zip" /\ ~exc
    /\ IF format_df_for_d878_raises(df)
       THEN Raise /\ UNCHANGED <<d878_csv, d878_zip, written, stdout>>
       ELSE /\ stdout' = Append(stdout, D878Report(df))
            /\ d878_csv' = format_df_for_d878(df)
            /\ d878_zip' = d878_csv'
            /\ written' = written \cup {"d878.csv", "d878.zip"}
            /\ pc' = "exit"
            /\ UNCHANGED exc
    /\ UNCHANGED <<registry, parseable, args, repeaterbook, df, index_md, repeaters_md,
                   map_md, chirp_csv>>

Next ==
    \/ ParseArgs
    \/ GenerateRepeaterDf
    \/ WriteIndexMd
    \/ WriteRepeatersMd
    \/ WriteMapMd
    \/ RemoveDfFootnotes
    \/ WriteChirpCsv
    \/ WriteD878Zip

InitOutputs ==
    /\ pc = "exit"
    /\ exc = FALSE
    /\ args = RegenArgs
    /\ repeaterbook = NoPage
    /\ df = <<>>
    /\ written = {}
    /\ stdout = <<>>
    /\ index_md = 0
    /\ repeaters_md = <<>>
    /\ map_md = <<>>
    /\ chirp_csv = <<>>
    /\ d878_csv = <<>>
    /\ d878_zip = <<>>

\* The registry holds records that earlier invocations stored.
Init ==
    /\ parseable \in BOOLEAN
    /\ registry \in SeqsUpTo(StoredRecords, MaxRecs)
    /\ InitOutputs

Spec == Init /\ [][Next]_vars

\* The same script started on the registries for the band filter.
InitBand ==
    /\ parseable = TRUE
    /\ registry \in SeqsUpTo(BandRecords, MaxRecs)
    /\ InitOutputs

SpecBand == InitBand /\ [][Next]_vars

\* The same script started on the registries for the tone codec.
InitTone ==
    /\ parseable = TRUE
    /\ registry \in SeqsUpTo(ToneRecords, MaxRecs)
    /\ InitOutputs

SpecTone == InitTone /\ [][Next]_vars

----------------------------------------------------------------------------
(* The claims.  Wrote(f) says that the current invocation has written f, so *)
(* that the file holds what this invocation computed from the registry.    *)

Wrote(f) == f \in written

IndexSeq(n) == [i \in 1..n |-> i]

\* The rows of d the Dual-Mode exporter is to emit, as indices into d: the
\* wanted modes inside the 2 m band, then those inside the 70 cm band.
WantedInBand(r, lo, hi) ==
    /\ r.Mode = FM \/ r.Mode = NBFM \/ r.Mode = DMR \/ r.Mode = Fusion
    /\ IsFloat(r.Output)
    /\ Float(r.Output) > lo * Unit
    /\ Float(r.Output) < hi * Unit

BandOrder(d) ==
    SelectSeq(IndexSeq(Len(d)), LAMBDA i : WantedInBand(d[i], 144, 148))
        \o SelectSeq(IndexSeq(Len(d)), LAMBDA i : WantedInBand(d[i], 430, 450))

\* The rows of the registry the Generic-FM exporter is to emit.
FmOrder(reg) ==
    SelectSeq(IndexSeq(Len(reg)),
              LAMBDA i : StripFootnote(reg[i].Mode) = FM
                         \/ StripFootnote(reg[i].Mode) = NBFM
                         \/ StripFootnote(reg[i].Mode) = Fusion)

\* tone[1:4]
Code3(tone) == SubSeq(tone, 2, IF Len(tone) < 4 THEN Len(tone) ELSE 4)

BeginsWithD(tone) == Len(tone) >= 1 /\ tone[1] = "D"

Abs(n) == IF n < 0 THEN 0 - n ELSE n

\* C1: the Dual-Mode rows are exactly the records of a wanted mode whose
\* output frequency lies strictly inside (144, 148), in registry order, then
\* those strictly inside (430, 450), in registry order, numbered 1..n; no
\* other record is emitted, and the count printed is n of the total.
C1_BandMajorRows ==
    Wrote("d878.csv") =>
        /\ Len(d878_csv) = Len(BandOrder(df))
        /\ \A n \in 1..Len(d878_csv) :
              /\ d878_csv[n].No = n
              /\ d878_csv[n].ChannelName = df[BandOrder(df)[n]].Callsign
              /\ 2 * Abs(d878_csv[n].ReceiveFrequency[1]
                         - Float(df[BandOrder(df)[n]].Output)) <= Pow10(3)
              /\ (d878_csv[n].ChannelType = "D-Digital")
                     <=> (df[BandOrder(df)[n]].Mode = DMR)
        /\ stdout[Len(stdout)] =
               [exporter |-> "AnyTone D878", kept |-> Len(d878_csv),
                total |-> Len(registry)]

\* C1 witness: a 70 cm record stored before a 2 m record comes out after it.
C1_Witness ==
    /\ Wrote("d878.csv")
    /\ BandOrder(df) = <<2, 1>>
    /\ Len(d878_csv) = 2
    /\ d878_csv[1].ReceiveFrequency[1] < d878_csv[2].ReceiveFrequency[1]

\* C2: the Generic-FM rows are the records whose footnote-stripped mode is
\* FM, NBFM or Fusion, one row each, in registry order, numbered 1..k, with
\* Mode NFM for NBFM and FM for Fusion and FM; the count printed is k of the
\* number of registry records.
C2_FmRows ==
    Wrote("rr_frequencies.csv") =>
        /\ Len(chirp_csv) = Len(FmOrder(registry))
        /\ \A n \in 1..Len(chirp_csv) :
              LET r == registry[FmOrder(registry)[n]]
              IN  /\ chirp_csv[n].Location = n
                  /\ chirp_csv[n].Name = r.Callsign
                  /\ chirp_csv[n].Frequency = r.Output
                  /\ chirp_csv[n].Comment = r.Callsign \o <<" ", "-", " ">> \o r.Output
                  /\ chirp_csv[n].Mode =
                         (IF StripFootnote(r.Mode) = NBFM
                          THEN <<"N", "F", "M">> ELSE <<"F", "M">>)
        /\ \E k \in 1..Len(stdout) :
              stdout[k] = [exporter |-> "Chirp", kept |-> Len(chirp_csv),
                           total |-> Len(registry)]

\* C2 witness: a DMR record is dropped and a footnoted NBFM record is kept as
\* row 1 with Mode NFM.
C2_Witness ==
    /\ Wrote("rr_frequencies.csv")
    /\ Len(registry) = 2
    /\ registry[1].Mode = DMR
    /\ registry[2].Mode = NbfmNoted
    /\ Len(chirp_csv) = 1
    /\ chirp_csv[1].Mode = <<"N", "F", "M">>
    /\ chirp_csv[1].Location = 1

\* C3: in the Dual-Mode output the mode decides first.  A DMR row has no
\* CTCSS/DCS Encode whatever its tone, and when its tone does not match the
\* DMR pattern the row is still emitted with colour, slot, contact and id all
\* absent.  A row of another mode has "D" + tone[1:4] + "N" when the tone
\* begins with D and the tone itself otherwise, and no Contact and no Slot.
C3_ModeGate ==
    Wrote("d878.csv") =>
        /\ Len(d878_csv) = Len(BandOrder(df))
        /\ \A n \in 1..Len(d878_csv) :
              LET r == df[BandOrder(df)[n]]
                  row == d878_csv[n]
              IN  IF r.Mode = DMR
                  THEN /\ row.Encode = NaN
                       /\ DmrMatches(r.Tone) = {} =>
                              /\ row.ColorCode = NaN
                              /\ row.Slot = NaN
                              /\ row.Contact = NaN
                              /\ row.ContactId = NaN
                  ELSE /\ row.Encode =
                              (IF BeginsWithD(r.Tone)
                               THEN <<"D">> \o Code3(r.Tone) \o <<"N">>
                               ELSE r.Tone)
                       /\ row.Contact = NaN
                       /\ row.Slot = NaN

\* C3 witness: a DMR record with the tone "D023N" has been emitted.
C3_Witness ==
    /\ Wrote("d878.csv")
    /\ \E n \in 1..Len(d878_csv) :
          /\ df[BandOrder(df)[n]].Mode = DMR
          /\ df[BandOrder(df)[n]].Tone = <<"D", "0", "2", "3", "N">>
          /\ d878_csv[n].ChannelType = "D-Digital"

\* C4: every Dual-Mode row has a Color Code: 1 on a row that is not DMR, the
\* decoded colour code on a DMR row.
C4_ColorCodeNeverEmpty ==
    Wrote("d878.csv") =>
        \A n \in 1..Len(d878_csv) :
            /\ d878_csv[n].ColorCode # NaN
            /\ d878_csv[n].ColorCode # <<>>
            /\ d878_csv[n].ChannelType = "A-Analog" => d878_csv[n].ColorCode = <<"1">>

\* The Generic-FM half of C6: a row whose tone begins with D has Tone DTCS,
\* DtcsCode tone[1:4] and rToneFreq 88.5; any other row has Tone "Tone", the
\* tone as rToneFreq and DtcsCode 023; cToneFreq and DtcsPolarity are fixed.
FmToneFields ==
    Wrote("rr_frequencies.csv") =>
        \A n \in 1..Len(chirp_csv) :
            LET r == registry[FmOrder(registry)[n]]
                row == chirp_csv[n]
            IN  /\ row.cToneFreq = "88.5"
                /\ row.DtcsPolarity = "NN"
                /\ IF BeginsWithD(r.Tone)
                   THEN /\ row.Tone = "DTCS"
                        /\ row.DtcsCode = Code3(r.Tone)
                        /\ row.rToneFreq = <<"8", "8", ".", "5">>
                   ELSE /\ row.Tone = "Tone"
                        /\ row.rToneFreq = r.Tone
                        /\ row.DtcsCode = <<"0", "2", "3">>

\* C6 as stated: FmToneFields, and every Dual-Mode row whose tone begins with
\* D has the CTCSS/DCS Encode "D" + tone[1:4] + "N".
C6_DcsCodeEveryRow ==
    /\ FmToneFields
    /\ Wrote("d878.csv") =>
          \A n \in 1..Len(d878_csv) :
              BeginsWithD(df[BandOrder(df)[n]].Tone) =>
                  d878_csv[n].Encode =
                      <<"D">> \o Code3(df[BandOrder(df)[n]].Tone) \o <<"N">>

\* C6 amended: FmToneFields, and every Dual-Mode row that is not DMR and
\* whose tone begins with D has the CTCSS/DCS Encode "D" + tone[1:4] + "N".
C6_DcsCodeAnalogRows ==
    /\ FmToneFields
    /\ Wrote("d878.csv") =>
          \A n \in 1..Len(d878_csv) :
              (df[BandOrder(df)[n]].Mode # DMR
                   /\ BeginsWithD(df[BandOrder(df)[n]].Tone)) =>
                  d878_csv[n].Encode =
                      <<"D">> \o Code3(df[BandOrder(df)[n]].Tone) \o <<"N">>

\* C6 witness: both files hold a row of an FM record with the tone "D07".
C6_Witness ==
    /\ Wrote("rr_frequencies.csv")
    /\ Wrote("d878.csv")
    /\ \E n \in 1..Len(chirp_csv) :
          /\ chirp_csv[n].Tone = "DTCS"
          /\ chirp_csv[n].DtcsCode = <<"0", "7">>
    /\ \E n \in 1..Len(d878_csv) :
          /\ d878_csv[n].ChannelType = "A-Analog"
          /\ d878_csv[n].Encode = <<"D", "0", "7", "N">>

\* C5: every Generic-FM row has the Duplex "+" or "-", the first character
\* of the record's offset, and as Offset the number after it with 6 decimals.
C5_SignedDuplex ==
    Wrote("rr_frequencies.csv") =>
        \A n \in 1..Len(chirp_csv) :
            LET r == registry[FmOrder(registry)[n]]
            IN  /\ chirp_csv[n].Duplex \in {<<"+">>, <<"-">>}
                /\ chirp_csv[n].Duplex = <<r.Offset[1]>>
                /\ chirp_csv[n].Offset = FormatFixed(Float(Tail(r.Offset)), 6)

\* The text a record contributes to the label of its pin.
LabelLine(r) == r.Callsign \o <<" ">> \o r.Output \o <<"<", "b", "r", ">">>

\* The records named in the label of pin k.
PinMembers(k) ==
    {i \in 1..Len(df) :
        \E at \in 1..Len(map_md[k].msg) : MatchAt(map_md[k].msg, at, LabelLine(df[i]))}

RECURSIVE SumOver(_, _)
SumOver(S, k) ==
    IF S = {} THEN 0
    ELSE LET i == CHOOSE x \in S : TRUE
         IN  df[i].Coordinates[k] + SumOver(S \ {i}, k)

MapRan == Wrote("map.md") \/ (pc = "write_map_md" /\ exc)

\* C7: whenever every record has coordinates, the clusterer writes one pin
\* per cluster; every record is in the label of exactly one pin; the records
\* of a pin are pairwise no farther apart than the threshold; the pin lies at
\* the mean of their latitudes and of their longitudes; two records 0.01
\* apart share a pin and two records 0.05 apart do not.
C7_PinsPartitionRecords ==
    (MapRan /\ \A i \in 1..Len(df) : df[i].Coordinates # NoCoordinates) =>
        /\ Wrote("map.md")
        /\ \A i \in 1..Len(df) :
              Cardinality({k \in 1..Len(map_md) : i \in PinMembers(k)}) = 1
        /\ \A k \in 1..Len(map_md) :
              /\ PinMembers(k) # {}
              /\ \A i, j \in PinMembers(k) : Dist2(df, i, j) <= 3 * 3
              /\ map_md[k].lat =
                     <<SumOver(PinMembers(k), 1), Cardinality(PinMembers(k))>>
              /\ map_md[k].lon =
                     <<SumOver(PinMembers(k), 2), Cardinality(PinMembers(k))>>
        /\ (Len(df) = 2 /\ Dist2(df, 1, 2) = 1) => Len(map_md) = 1
        /\ (Len(df) = 2 /\ Dist2(df, 1, 2) = 25) => Len(map_md) = 2

\* C8: no invocation ends in the clusterer because a record has no
\* coordinates, nor in the Dual-Mode exporter because an output frequency or
\* an offset is no number: such a record is skipped and the run goes on.
C8_MissingFieldSkipped ==
    /\ (pc = "write_map_md" /\ exc) =>
           \A i \in 1..Len(df) : df[i].Coordinates # NoCoordinates
    /\ (pc = "write_d878_zip" /\ exc) =>
           \A i \in 1..Len(df) : IsFloat(df[i].Output) /\ IsFloat(df[i].Offset)

FmNoted == <<"F", "M", "[", "1", "]">>

\* C9: only generate_repeater_df of an invocation without --regen changes the
\* registry, and it adds one record at the end and keeps the others as they
\* were; every other step, and an invocation with --regen, leaves the
\* registry as it is; stripping the footnotes gives the exporters "FM" for a
\* stored "FM[1]", which stays in the registry.
C9_AppendOnly ==
    [][/\ IF pc = "generate_repeater_df" /\ ~exc /\ ~args.regen /\ ~exc'
          THEN /\ Len(registry') = Len(registry) + 1
               /\ SubSeq(registry', 1, Len(registry)) = registry
          ELSE registry' = registry
       /\ (pc = "remove_df_footnotes" /\ ~exc) =>
              \A i \in 1..Len(registry) :
                  registry[i].Mode = FmNoted =>
                      registry'[i].Mode = FmNoted /\ df'[i].Mode = FM
      ]_vars

\* C9 witness: an appending invocation has run to its end over a registry
\* that holds "FM[1]", and the exporters were given "FM".
C9_Witness ==
    /\ pc = "exit" /\ ~exc /\ ~args.regen
    /\ Wrote("d878.zip")
    /\ Len(registry) = Len(df)
    /\ \E i \in 1..Len(registry) : registry[i].Mode = FmNoted /\ df[i].Mode = FM

\* An answer of the site from which no record can be taken.
BadAnswer(page) ==
    page.status # "ok" \/ ~IsFloat(page.freq) \/ ~IsFloat(page.offset)

\* C10: when the lookup fails or the registry cannot be parsed,
\* generate_repeater_df raises with the registry as it was and with no output
\* file written by this invocation.
C10_FailedLoadWritesNothing ==
    [][(/\ pc = "generate_repeater_df" /\ ~exc
        /\ \/ ~parseable
           \/ ~args.regen /\ ~IsNaN(args.id) /\ BadAnswer(repeaterbook))
       => /\ exc' /\ pc' = pc
          /\ registry' = registry
          /\ written' = {}
          /\ UNCHANGED <<index_md, repeaters_md, map_md, chirp_csv, d878_csv, d878_zip>>
      ]_vars

\* C10 witness: an invocation has ended in generate_repeater_df on a page
\* whose downlink is no number, after an earlier invocation wrote its outputs.
C10_Witness ==
    /\ pc = "generate_repeater_df" /\ exc
    /\ parseable
    /\ repeaterbook.status = "ok"
    /\ written = {}
    /\ Len(d878_zip) > 0

====
